---- MODULE Spec2Model ----
(***************************************************************************)
(* Model of the Google Earth Engine Toolbox (src/geet.js).                 *)
(*                                                                         *)
(* The library is a set of exported functions that build remote call       *)
(* graphs.  A state of the model is the module-level binding COLOR, the    *)
(* names bound outside any call by an assignment that escaped its function *)
(* (globals), the number of calls made (calls), and the most recent call   *)
(* of an exported function (fn, arguments) with its outcome:               *)
(* its return value, the messages it printed, the layers it added to the   *)
(* Map and the export tasks it created.  JavaScript values are tagged      *)
(* records, so that undefined, null, numbers, strings and booleans stay    *)
(* distinct and === can be modelled as it behaves.  Remote handles are      *)
(* records that spell out the remote calls that built them.                *)
(*                                                                         *)
(* The batch radiometric normalization is a run of its own: pc is the      *)
(* statement the client has reached, first the dictionary the iteration    *)
(* starts from, locals the values imad1 has bound, executions the number   *)
(* of times imad1 was entered, result what iterate returned and thrown the *)
(* exception that ended the run.                                           *)
(***************************************************************************)
EXTENDS Integers, Sequences, FiniteSets, TLC

VARIABLES COLOR, globals, calls, fn, arguments, ret, printed, layers, tasks,
          pc, niter, first, locals, executions, result, thrown

library == <<COLOR, globals, calls, fn, arguments, ret, printed, layers, tasks>>

iMAD == <<pc, niter, first, locals, executions, result, thrown>>

vars == <<library, iMAD>>

(***************************************************************************)
(* JavaScript values                                                       *)
(***************************************************************************)
Undefined == [t |-> "undefined"]
Null == [t |-> "null"]
Num(n) == [t |-> "number", v |-> n]
Str(s) == [t |-> "string", v |-> s]
Bool(b) == [t |-> "boolean", v |-> b]

\* a === b
StrictEq(a, b) == a.t = b.t /\ a = b

\* typeof a !== 'undefined' ? a : d
OrDefault(a, d) == IF a.t # "undefined" THEN a ELSE d

(***************************************************************************)
(* String.prototype.toLowerCase and Number.prototype.toString              *)
(***************************************************************************)
UpperChars == "ABCDEFGHIJKLMNOPQRSTUVWXYZ"
LowerChars == "abcdefghijklmnopqrstuvwxyz"
Digits == "0123456789"

CharAt(s, i) == SubSeq(s, i, i)

toLowerChar(c) ==
  IF \E i \in 1..Len(UpperChars) : CharAt(UpperChars, i) = c
  THEN CharAt(LowerChars, CHOOSE i \in 1..Len(UpperChars) : CharAt(UpperChars, i) = c)
  ELSE c

toUpperChar(c) ==
  IF \E i \in 1..Len(LowerChars) : CharAt(LowerChars, i) = c
  THEN CharAt(UpperChars, CHOOSE i \in 1..Len(LowerChars) : CharAt(LowerChars, i) = c)
  ELSE c

RECURSIVE toLowerCase(_)
toLowerCase(s) ==
  IF s = "" THEN "" ELSE toLowerChar(Head(s)) \o toLowerCase(Tail(s))

RECURSIVE toUpperCase(_)
toUpperCase(s) ==
  IF s = "" THEN "" ELSE toUpperChar(Head(s)) \o toUpperCase(Tail(s))

\* decimal digits of a non-negative integer, as (n).toString() prints them
RECURSIVE toString(_)
toString(n) ==
  IF n < 10 THEN CharAt(Digits, n + 1)
  ELSE toString(n \div 10) \o CharAt(Digits, (n % 10) + 1)

(***************************************************************************)
(* Ways of writing a name that callers use: as is, lower case, upper case, *)
(* capitalised, and with the case of every second letter flipped.          *)
(***************************************************************************)
RECURSIVE Alternate(_, _)
Alternate(s, up) ==
  IF s = "" THEN ""
  ELSE (IF up THEN toUpperChar(Head(s)) ELSE toLowerChar(Head(s))) \o Alternate(Tail(s), ~up)

Capitalise(s) == IF s = "" THEN "" ELSE toUpperChar(Head(s)) \o toLowerCase(Tail(s))

Spellings(s) == {s, toLowerCase(s), toUpperCase(s), Capitalise(s), Alternate(s, FALSE)}

(***************************************************************************)
(* Remote handles of the platform                                          *)
(***************************************************************************)
\* an image the caller passes in: an opaque reference
InputImage(id) == [t |-> "image", id |-> id, added |-> <<>>]

Images == {InputImage("img1"), InputImage("img2")}

\* image.addBands(bands)
addBands(image, bands) == [image EXCEPT !.added = @ \o bands]

\* image.normalizedDifference([a, b]).rename(name)
normalizedDifference(a, b, name) ==
  [name |-> name, op |-> "normalizedDifference", expr |-> "", args |-> <<a, b>>]

\* image.expression(expr, {k: image.select(band) or a number, ...}).rename(name)
expression(expr, args, name) ==
  [name |-> name, op |-> "expression", expr |-> expr, args |-> args]

(***************************************************************************)
(* Outcome of one call                                                     *)
(***************************************************************************)
Outcome(r, p, l, k) == [ret |-> r, printed |-> p, layers |-> l, tasks |-> k]

Returns(r) == Outcome(r, <<>>, <<>>, <<>>)

Layer(image, vis, title) == [image |-> image, vis |-> vis, title |-> title]

(***************************************************************************)
(* COLOR and color                                                         *)
(***************************************************************************)
ColorTable ==
  [WATER |-> "0066ff", FOREST |-> "009933", PASTURE |-> "99cc00",
   URBAN |-> "ff0000", SHADOW |-> "000000", NULL |-> "808080"]

\* COLOR.KEY: a missing property reads as undefined
Prop(obj, key) == IF key \in DOMAIN obj THEN Str(obj[key]) ELSE Undefined

ColorError ==
  "Error: Valid options are water, forest, pasture, urban, shadow or null! Remember to pass the argument as a string."

\* color with the switch on the argument as passed (no toLowerCase)
color_CaseSensitive(tbl, _color) ==
  LET c == _color IN
  CASE c = "water" -> Prop(tbl, "WATER")
    [] c = "forest" -> Prop(tbl, "FOREST")
    [] c = "pasture" -> Prop(tbl, "PASTURE")
    [] c = "urban" -> Prop(tbl, "URBAN")
    [] c = "shadow" -> Prop(tbl, "SHADOW")
    [] c = "null" -> Prop(tbl, "NULL")
    [] OTHER -> Str(ColorError)

color(tbl, _color) ==
  LET c == toLowerCase(_color) IN
  CASE c = "water" -> Prop(tbl, "WATER")
    [] c = "forest" -> Prop(tbl, "FOREST")
    [] c = "pasture" -> Prop(tbl, "PASTURE")
    [] c = "urban" -> Prop(tbl, "URBAN")
    [] c = "shadow" -> Prop(tbl, "SHADOW")
    [] c = "null" -> Prop(tbl, "NULL")
    [] OTHER -> Str(ColorError)

(***************************************************************************)
(* plotRGB                                                                 *)
(***************************************************************************)
plotRGB(image, title) ==
  LET t == OrDefault(title, Str("image_RGB"))
      vizParams == [bands |-> "B4,B3,B2", min |-> 5000, max |-> 30000, gamma |-> "1.6"]
  IN Outcome(Undefined, <<>>, <<Layer(image, vizParams, t)>>, <<>>)

(***************************************************************************)
(* plotClass                                                               *)
(***************************************************************************)
PlotClassError ==
  "Error: Wrong number of classes. plotClass supports a number of classes from 2 to 5 only."

ClassVis(numClasses, palette) == [min |-> 0, max |-> numClasses.v - 1, palette |-> palette]

plotClass(tbl, image, numClasses, _title) ==
  LET title == OrDefault(_title, Str("class_final")) IN
  CASE StrictEq(numClasses, Num(2)) ->
         Outcome(Undefined, <<>>,
           <<Layer(image, ClassVis(numClasses,
               <<Prop(tbl, "SHADOW"), Prop(tbl, "NULO")>>), title)>>, <<>>)
    [] StrictEq(numClasses, Num(3)) ->
         Outcome(Undefined, <<>>,
           <<Layer(image, ClassVis(numClasses,
               <<Prop(tbl, "URBAN"), Prop(tbl, "FOREST"), Prop(tbl, "WATER")>>), title)>>, <<>>)
    [] StrictEq(numClasses, Num(4)) ->
         Outcome(Undefined, <<>>,
           <<Layer(image, ClassVis(numClasses,
               <<Prop(tbl, "URBAN"), Prop(tbl, "FOREST"), Prop(tbl, "PASTURE"),
                 Prop(tbl, "WATER")>>), title)>>, <<>>)
    [] StrictEq(numClasses, Num(5)) ->
         Outcome(Undefined, <<>>,
           <<Layer(image, ClassVis(numClasses,
               <<Prop(tbl, "URBAN"), Prop(tbl, "FOREST"), Prop(tbl, "PASTURE"),
                 Prop(tbl, "WATER"), Prop(tbl, "SHADOW")>>), title)>>, <<>>)
    [] OTHER -> Outcome(Undefined, <<Str(PlotClassError)>>, <<>>, <<>>)

(***************************************************************************)
(* landsatIndices                                                          *)
(***************************************************************************)
i_nrvi(nir, red) ==
  expression("(RED/NIR - 1) / (RED/NIR + 1)",
             <<<<"NIR", nir>>, <<"RED", red>>>>, "NRVI")

i_evi(nir, red, blue) ==
  expression("2.5 * ((NIR - RED)) / (NIR + 6 * RED - 7.5 * BLUE + 1)",
             <<<<"NIR", nir>>, <<"RED", red>>, <<"BLUE", blue>>>>, "EVI")

i_savi(nir, red) ==
  expression("(1 + L) * (NIR - RED) / (NIR + RED + L)",
             <<<<"NIR", nir>>, <<"RED", red>>, <<"L", "0.2">>>>, "SAVI")

i_gosavi(nir, green) ==
  expression("(NIR - GREEN) / (NIR + GREEN + Y)",
             <<<<"NIR", nir>>, <<"GREEN", green>>, <<"Y", "0.16">>>>, "GOSAVI")

\* sensor == 'L5' || sensor == 'L7', sensor == 'L8', sensor == 'S2'
IsL57(sensor) == sensor.t = "string" /\ sensor.v \in {"L5", "L7"}
IsL8(sensor) == sensor.t = "string" /\ sensor.v = "L8"
IsS2(sensor) == sensor.t = "string" /\ sensor.v = "S2"

WrongSensor == Outcome(Undefined, <<Str("Error: Wrong sensor!")>>, <<>>, <<>>)

WrongSensorInput ==
  Outcome(Undefined,
          <<Str("Error: Wrong sensor input!"),
            Str("Choose 'L5' to process Landsat 5 images, 'L8' for Landsat 8 and S2 for Sentinel 2")>>,
          <<>>, <<>>)

\* one case of the switch: the band for each sensor, <<>> where the case has
\* no branch for that sensor
OneIndex(image, sensor, l57, l8, s2) ==
  CASE IsL57(sensor) /\ l57 # <<>> -> Returns(addBands(image, l57))
    [] IsL8(sensor) /\ l8 # <<>> -> Returns(addBands(image, l8))
    [] IsS2(sensor) /\ s2 # <<>> -> Returns(addBands(image, s2))
    [] OTHER -> WrongSensor

\* the switch (index) of landsatIndices: case labels compare with ===
LandsatSwitch(image, sensor, index) ==
  CASE StrictEq(index, Str("NDVI")) ->
         OneIndex(image, sensor,
                  <<normalizedDifference("B4", "B3", "NDVI")>>,
                  <<normalizedDifference("B5", "B4", "NDVI")>>,
                  <<normalizedDifference("B8", "B4", "NDVI")>>)
    [] StrictEq(index, Str("NDWI")) ->
         OneIndex(image, sensor,
                  <<normalizedDifference("B3", "B5", "NDWI")>>,
                  <<normalizedDifference("B4", "B6", "NDWI")>>,
                  <<normalizedDifference("B4", "B11", "NDWI")>>)
    [] StrictEq(index, Str("NDBI")) ->
         OneIndex(image, sensor,
                  <<normalizedDifference("B5", "B4", "NDBI")>>,
                  <<normalizedDifference("B6", "B5", "NDBI")>>,
                  <<normalizedDifference("B11", "B8", "NDBI")>>)
    [] StrictEq(index, Str("NRVI")) ->
         OneIndex(image, sensor,
                  <<i_nrvi("B4", "B3")>>,
                  <<i_nrvi("B5", "B4")>>,
                  <<>>)
    [] StrictEq(index, Str("EVI")) ->
         OneIndex(image, sensor,
                  <<i_evi("B4", "B3", "B1")>>,
                  <<i_evi("B5", "B4", "B2")>>,
                  <<i_evi("B8", "B4", "B2")>>)
    [] StrictEq(index, Str("SAVI")) ->
         OneIndex(image, sensor,
                  <<i_savi("B4", "B3")>>,
                  <<i_savi("B5", "B4")>>,
                  <<i_savi("B8", "B4")>>)
    [] StrictEq(index, Str("GOSAVI")) ->
         OneIndex(image, sensor,
                  <<i_gosavi("B4", "B2")>>,
                  <<i_gosavi("B5", "B3")>>,
                  <<i_gosavi("B8", "B3")>>)
    [] OTHER -> Returns(Undefined)

\* the else branch: "Gen ALL indices"
LandsatAll(image, sensor) ==
  CASE IsL57(sensor) ->
         Returns(addBands(image,
           <<normalizedDifference("B4", "B3", "NDVI"),
             normalizedDifference("B2", "B5", "NDWI"),
             normalizedDifference("B5", "B4", "NDBI"),
             i_nrvi("B4", "B3"), i_evi("B4", "B3", "B1"),
             i_savi("B4", "B3"), i_gosavi("B4", "B2")>>))
    [] IsL8(sensor) ->
         Returns(addBands(image,
           <<normalizedDifference("B5", "B4", "NDVI"),
             normalizedDifference("B3", "B6", "NDWI"),
             normalizedDifference("B6", "B5", "NDBI"),
             i_nrvi("B5", "B4"), i_evi("B5", "B4", "B2"),
             i_savi("B5", "B4"), i_gosavi("B5", "B3")>>))
    [] IsS2(sensor) ->
         Returns(addBands(image,
           <<normalizedDifference("B8", "B4", "NDVI"),
             normalizedDifference("B3", "B11", "NDWI"),
             normalizedDifference("B11", "B8", "NDBI"),
             i_evi("B8", "B4", "B2"),
             i_savi("B8", "B4"), i_gosavi("B8", "B3")>>))
    [] OTHER -> WrongSensorInput

\* landsatIndices with the test written as index !== undefined
landsatIndices_StrictUndefined(image, sensor, index) ==
  IF index.t # "undefined"
  THEN LandsatSwitch(image, sensor, index)
  ELSE LandsatAll(image, sensor)

\* index != null is false for both undefined and null
landsatIndices(image, sensor, index) ==
  IF index.t \notin {"undefined", "null"}
  THEN LandsatSwitch(image, sensor, index)
  ELSE LandsatAll(image, sensor)

(***************************************************************************)
(* sentinel2Indices                                                        *)
(***************************************************************************)
GemiExpr ==
  "(((NIR_POW - RED_POW) * 2 + (NIR * 1.5) + (RED * 0.5))/(NIR + RED + 0.5)) * (1 - ((((NIR_POW - RED_POW) * 2 + (NIR * 1.5) + (RED * 0.5)) / (NIR + RED + 0.5)) * 0.25)) - ((RED - 0.125) / (1 - RED))"

\* band.log().rename(name), band.sqrt().rename(name)
then(f, band, name) == [band EXCEPT !.op = @ \o "." \o f, !.name = name]

\* the band each case of switch (index.toLowerCase()) builds; <<>> when no
\* case label matches
S2Case(c) ==
  CASE c = "ndvi" -> <<normalizedDifference("B8", "B4", "NDVI")>>
    [] c = "ndwi" -> <<normalizedDifference("B3", "B8", "NDWI")>>
    [] c = "ndbi" -> <<normalizedDifference("B11", "B8", "NDBI")>>
    [] c = "mndwi" -> <<normalizedDifference("B3", "B12", "MNDWI")>>
    [] c = "mndvi" -> <<normalizedDifference("B9", "B12", "MNDVI")>>
    [] c = "ngrdi" -> <<normalizedDifference("B3", "B5", "NGRDI")>>
    [] c = "ndsi" -> <<normalizedDifference("B11", "B12", "NDSI")>>
    [] c = "ri" -> <<normalizedDifference("B5", "B3", "RI")>>
    [] c = "ndmi" -> <<normalizedDifference("B9", "B12", "NDMI")>>
    [] c = "gndvi" -> <<normalizedDifference("B9", "B3", "GNDVI")>>
    [] c = "bndvi" -> <<normalizedDifference("B9", "B1", "BNDVI")>>
    [] c = "nbr" -> <<normalizedDifference("B9", "B12", "NBR")>>
    [] c = "ppr" -> <<normalizedDifference("B9", "B12", "PPR")>>
    [] c = "ndre" -> <<normalizedDifference("B9", "B5", "NDRE")>>
    [] c = "lci" -> <<normalizedDifference("B8", "B5", "LCI")>>
    [] c = "savi" ->
         <<expression("(1 + L) * (NIR - RED) / (NIR + RED + L)",
                      <<<<"NIR", "B8">>, <<"RED", "B4">>, <<"L", "0.5">>>>, "SAVI")>>
    [] c = "gosavi" ->
         <<expression("(NIR - GREEN) / (NIR + GREEN + Y)",
                      <<<<"NIR", "B8">>, <<"GREEN", "B3">>, <<"Y", "0.16">>>>, "GOSAVI")>>
    [] c = "evi" ->
         <<expression("2.5 * ((NIR - RED) / (NIR + 6 * RED - 7.5 * BLUE + 1))",
                      <<<<"NIR", "B8">>, <<"RED", "B4">>, <<"BLUE", "B2">>>>, "EVI")>>
    [] c = "evi2" ->
         <<expression("2.4 * ((NIR - RED) / (NIR + 2.4 * RED + 1))",
                      <<<<"NIR", "B8">>, <<"RED", "B4">>>>, "EVI2")>>
    [] c = "gemi" ->
         <<expression(GemiExpr,
                      <<<<"RED", "B4">>, <<"NIR", "B8">>, <<"RED_POW", "B4.pow(2)">>,
                        <<"NIR_POW", "B8.pow(2)">>>>, "GEMI")>>
    [] c = "rvi" ->
         <<expression("RED / NIR", <<<<"NIR", "B8">>, <<"RED", "B4">>>>, "RVI")>>
    [] c = "logr" ->
         <<then("log", expression("RED / NIR", <<<<"NIR", "B8">>, <<"RED", "B4">>>>, ""), "logR")>>
    [] c = "tvi" ->
         <<then("sqrt", expression("NDVI + 0.5",
                        <<<<"NDVI", "normalizedDifference(B8, B4)">>>>, ""), "TVI")>>
    [] OTHER -> <<>>

\* the bands of the else branch ("Gen ALL indices"), in the order of the
\* list passed to addBands
S2AllNames ==
  <<"ndvi", "ndwi", "ndbi", "mndwi", "mndvi", "ngrdi", "ndsi", "ri", "ndmi",
    "gndvi", "bndvi", "nbr", "ppr", "ndre", "lci", "savi", "gosavi", "evi",
    "evi2", "rvi", "logr", "tvi">>

RECURSIVE S2Bands(_)
S2Bands(names) ==
  IF names = <<>> THEN <<>> ELSE S2Case(Head(names)) \o S2Bands(Tail(names))

\* sentinel2Indices with the switch on index as passed (no toLowerCase)
sentinel2Indices_CaseSensitive(image, index) ==
  IF index.t # "undefined"
  THEN LET band == S2Case(index.v) IN
       IF band # <<>> THEN Returns(addBands(image, band)) ELSE Returns(Undefined)
  ELSE Returns(addBands(image, S2Bands(S2AllNames)))

sentinel2Indices(image, index) ==
  IF index.t # "undefined"
  THEN LET band == S2Case(toLowerCase(index.v)) IN
       IF band # <<>> THEN Returns(addBands(image, band)) ELSE Returns(Undefined)
  ELSE Returns(addBands(image, S2Bands(S2AllNames)))

(***************************************************************************)
(* loadImg                                                                 *)
(***************************************************************************)
WrongCollection ==
  "Error: Wrong collection type. Possible inputs: 'RAW', 'TOA' or 'SR'."

DefaultVis == [bands |-> <<"B4", "B3", "B2">>, max |-> "0.3"]
RawVis == [bands |-> <<"B4", "B3", "B2">>, min |-> 6809, max |-> 12199]
SRVis == [bands |-> <<"B4", "B3", "B2">>, min |-> 104, max |-> 1632]

\* the chain of if / else if on the collection type inside one year branch:
\* the reassigned collection, the visParams and what is printed
CheckCollection(type, raw, toa, sr) ==
  CASE StrictEq(type, Str("RAW")) -> <<Str(raw), RawVis, <<>>>>
    [] StrictEq(type, Str("TOA")) -> <<Str(toa), DefaultVis, <<>>>>
    [] StrictEq(type, Str("SR")) -> <<Str(sr), SRVis, <<>>>>
    [] OTHER -> <<type, DefaultVis, <<Str(WrongCollection)>>>>

\* the year branches with the first threshold written as year > 2013
YearBranch_After2013(year) ==
  IF year > 2013 THEN "L8"
  ELSE IF year < 2013 /\ year >= 1985 THEN "L5"
  ELSE "error"

\* the branch of "Check collection" that a year takes
YearBranch(year) ==
  IF year >= 2013 THEN "L8"
  ELSE IF year < 2013 /\ year >= 1985 THEN "L5"
  ELSE "error"

\* ic.filterBounds(roi).filterDate(year + start, year + finish).sort('CLOUD_COVER')
Filtered(collection, roi, year) ==
  <<<<"ee.ImageCollection", collection>>,
    <<"filterBounds", roi>>,
    <<"filterDate", toString(year) \o "-01-01", toString(year) \o "-12-31">>,
    <<"sort", "CLOUD_COVER">>>>

\* image.updateMask(image.select(['fmask']).neq(4))
noclouds == <<"map", "updateMask", <<"select", "fmask">>, <<"neq", 4>>>>

loadImg(_collection, _year, _roi, _cloudFree) ==
  LET type == OrDefault(_collection, Str("TOA"))
      roi == OrDefault(_roi, Str("ee.Geometry.Point(-43.25, -22.90)"))
      year == OrDefault(_year, Num(2015)).v
      cloudFree == OrDefault(_cloudFree, Bool(TRUE))
      checked ==
        CASE YearBranch(year) = "L8" ->
               CheckCollection(type, "LANDSAT/LC8_L1T", "LANDSAT/LC8_L1T_TOA_FMASK",
                               "LANDSAT/LC8_SR")
          [] YearBranch(year) = "L5" ->
               CheckCollection(type, "LANDSAT/LT5_L1T", "LANDSAT/LT5_L1T_TOA_FMASK",
                               "LANDSAT/LT5_SR")
          [] OTHER -> <<type, DefaultVis, <<Str("Error: Wrong year parameter")>>>>
      collection == checked[1]
      visParams == checked[2]
      result_image ==
        IF StrictEq(cloudFree, Bool(TRUE)) /\ StrictEq(collection, Str("TOA"))
        THEN [t |-> "image",
              calls |-> Filtered(collection, roi, year) \o <<noclouds, <<"median">>>>]
        ELSE [t |-> "image",
              calls |-> Filtered(collection, roi, year) \o <<<<"first">>>>]
      titleName == "loadImg" \o "_" \o toString(year)
  IN Outcome(result_image, checked[3] \o <<result_image>>,
             <<Layer(result_image, visParams, Str(titleName))>>, <<>>)

(***************************************************************************)
(* toaReflectanceL8                                                        *)
(***************************************************************************)
\* ee.Number(original_img.get('SUN_ELEVATION'))
sun_elevation(original_img) == <<"get", original_img.id, "SUN_ELEVATION">>

solarAngleElevation(original_img, raw_reflectance) ==
  [t |-> "image", name |-> "TOA_Reflectance_SE", op |-> "divide",
   args |-> <<raw_reflectance, <<"sin", sun_elevation(original_img)>>>>]

solarAngleZenith(original_img, raw_reflectance) ==
  [t |-> "image", name |-> "TOA_Reflectance_SZ", op |-> "divide",
   args |-> <<raw_reflectance,
              <<"cos", <<"subtract", 90, sun_elevation(original_img)>>>>>>]

\* the band rescaled with the reflectance coefficients of the metadata
RawReflectance(band, suffix) ==
  expression("(Mp * image) + Ap",
             <<<<"Mp", "REFLECTANCE_MULT_BAND_" \o toString(band)>>,
               <<"Ap", "REFLECTANCE_ADD_BAND_" \o toString(band)>>,
               <<"image", "B" \o toString(band)>>>>,
             "B" \o toString(band) \o suffix)

SolarAngleMessages ==
  <<Str("Error: You need to choose one of two modes:"),
    Str("Error: 'SE' for the local sun elevation angle or 'SZ' for the Local solar zenith angle."),
    Str("Warning: 'SZ' will be set as default mode.")>>

\* toaReflectanceL8 without the reset of an unknown mode to 'SZ'
toaReflectanceL8_NoReset(image, band, _solarAngle) ==
  LET invalid == /\ _solarAngle.t # "undefined"
                 /\ ~StrictEq(_solarAngle, Str("SZ"))
                 /\ ~StrictEq(_solarAngle, Str("SE"))
      solarAngle == IF _solarAngle.t # "undefined" THEN _solarAngle ELSE Str("SZ")
      msgs == IF invalid THEN SolarAngleMessages ELSE <<>>
  IN CASE StrictEq(solarAngle, Str("SE")) ->
            Outcome(solarAngleElevation(image, RawReflectance(band.v, "_TOA_Reflectance_SE")),
                    msgs, <<>>, <<>>)
       [] StrictEq(solarAngle, Str("SZ")) ->
            Outcome(solarAngleZenith(image, RawReflectance(band.v, "_TOA_Reflectance_SZ")),
                    msgs, <<>>, <<>>)
       [] OTHER -> Outcome(Undefined, msgs, <<>>, <<>>)

toaReflectanceL8(image, band, _solarAngle) ==
  LET invalid == /\ _solarAngle.t # "undefined"
                 /\ ~StrictEq(_solarAngle, Str("SZ"))
                 /\ ~StrictEq(_solarAngle, Str("SE"))
      solarAngle == IF _solarAngle.t # "undefined" /\ ~invalid THEN _solarAngle ELSE Str("SZ")
      msgs == IF invalid THEN SolarAngleMessages ELSE <<>>
  IN CASE StrictEq(solarAngle, Str("SE")) ->
            Outcome(solarAngleElevation(image, RawReflectance(band.v, "_TOA_Reflectance_SE")),
                    msgs, <<>>, <<>>)
       [] StrictEq(solarAngle, Str("SZ")) ->
            Outcome(solarAngleZenith(image, RawReflectance(band.v, "_TOA_Reflectance_SZ")),
                    msgs, <<>>, <<>>)
       [] OTHER -> Outcome(Undefined, msgs, <<>>, <<>>)

(***************************************************************************)
(* exportImg                                                               *)
(***************************************************************************)
exportImg(image, outFilename, _scale, _maxPixels) ==
  Outcome(Undefined, <<>>, <<>>,
          <<[image |-> image, description |-> outFilename,
             scale |-> OrDefault(_scale, Num(30)),
             maxPixels |-> OrDefault(_maxPixels, Num("1e10"))]>>)

(***************************************************************************)
(* s2Mosaic                                                                *)
(***************************************************************************)
MosaicVis == [bands |-> <<"B2", "B3", "B4">>, min |-> 400, max |-> 2811]

s2Mosaic(startDate, endDate, roi, _showMosaic) ==
  LET showMosaic == OrDefault(_showMosaic, Bool(TRUE))
      sorted == <<<<"ee.ImageCollection", Str("COPERNICUS/S2")>>,
                  <<"filterDate", startDate, endDate>>,
                  <<"sort", "CLOUDY_PIXEL_PERCENTAGE", FALSE>>>>
      composite ==
        IF StrictEq(roi, Undefined)
        THEN [t |-> "image",
              calls |-> sorted \o <<<<"map", "addBands", <<"metadata", "system:time_start">>>>,
                                    <<"mosaic">>>>]
        ELSE [t |-> "image",
              calls |-> sorted \o <<<<"filterBounds", roi>>, <<"mosaic">>>>]
  IN IF StrictEq(showMosaic, Bool(TRUE))
     THEN Outcome(composite, <<>>, <<Layer(composite, MosaicVis, Str("S2_Mosaic"))>>, <<>>)
     ELSE Returns(composite)

(***************************************************************************)
(* Scopes: where the assignments of each function land.  A site is         *)
(* <<name, block>>, block being the path of the nested blocks around it    *)
(* (named by the line that opens them), <<>> for the function body.        *)
(***************************************************************************)
Body == <<>>

Params(f) ==
  CASE f = "color" -> {"_color"}
    [] f = "plotRGB" -> {"image", "title"}
    [] f = "plotClass" -> {"image", "numClasses", "title"}
    [] f = "landsatIndices" -> {"image", "sensor", "index"}
    [] f = "sentinel2Indices" -> {"image", "index"}
    [] f = "loadImg" -> {"collection", "year", "roi", "cloudFree"}
    [] f = "toaReflectanceL8" -> {"image", "band", "_solarAngle"}
    [] f = "s2Mosaic" -> {"startDate", "endDate", "roi", "showMosaic"}
    [] f = "exportImg" -> {"image", "outFilename", "scale", "maxPixels"}
    [] OTHER -> {}

\* the var declarations of the names a function also assigns without var
VarDecls(f) ==
  CASE f = "loadImg" -> {<<"visParams", Body>>}
    [] f = "toaReflectanceL8" -> {<<"solarAngle", <<"if 1213">>>>}
    [] f = "s2Mosaic" -> {<<"composite", <<"if 1755">>>>}
    [] OTHER -> {}

\* the assignments written without var
BareAssignments(f) ==
  CASE f = "plotRGB" -> {<<"title", Body>>}
    [] f = "plotClass" -> {<<"title", Body>>}
    [] f = "loadImg" ->
         {<<"collection", Body>>, <<"roi", Body>>, <<"year", Body>>, <<"cloudFree", Body>>,
          <<"collection", <<"if 1031", "if 1032">>>>, <<"visParams", <<"if 1031", "if 1032">>>>,
          <<"collection", <<"if 1031", "else if 1037">>>>,
          <<"collection", <<"if 1031", "else if 1039">>>>,
          <<"visParams", <<"if 1031", "else if 1039">>>>,
          <<"collection", <<"else if 1047", "if 1048">>>>,
          <<"visParams", <<"else if 1047", "if 1048">>>>,
          <<"collection", <<"else if 1047", "else if 1053">>>>,
          <<"collection", <<"else if 1047", "else if 1055">>>>,
          <<"visParams", <<"else if 1047", "else if 1055">>>>}
    [] f = "toaReflectanceL8" ->
         {<<"solarAngle", <<"if 1213", "if 1215">>>>, <<"solarAngle", <<"else 1221">>>>}
    [] f = "s2Mosaic" -> {<<"showMosaic", Body>>, <<"composite", <<"else 1762">>>>}
    [] f = "exportImg" -> {<<"scale", Body>>, <<"maxPixels", Body>>}
    [] OTHER -> {}

IsPrefix(p, q) == Len(p) <= Len(q) /\ SubSeq(q, 1, Len(p)) = p

\* the rule of a block-scoped declaration (let): visible in its block only
Visible_BlockScoped(f, name, block) ==
  \/ name \in Params(f)
  \/ \E d \in VarDecls(f) : d[1] = name /\ IsPrefix(d[2], block)

\* parameters and var declarations are function-scoped: a var declared in
\* any block of the function is visible in every block of it
Visible(f, name, block) ==
  \/ name \in Params(f)
  \/ \E d \in VarDecls(f) : d[1] = name

\* the names an assignment of f binds outside the call
Escapes(f) ==
  {a[1] : a \in {b \in BareAssignments(f) : ~Visible(f, b[1], b[2])}}

(***************************************************************************)
(* iMAD (imad, imad1, geneiv, covarw, radcalbatch).  The functions run in  *)
(* the client and build remote computations: a computed object is a record *)
(* that names its receiver, the remote method and the arguments; a         *)
(* JavaScript array is a tuple of values.                                  *)
(***************************************************************************)
Computed(receiver, method, args) ==
  [t |-> "computed", calls |-> <<receiver, method, args>>]

JsArray(elements) == [t |-> "array", v |-> elements]

\* the placeholder the client passes for a parameter of the function
\* handed to iterate
Placeholder(name) == [t |-> "variable", v |-> name]

\* obj[i]: an element of a JavaScript array; any other object has no
\* property of that name
Index(obj, i) ==
  IF obj.t = "array" /\ i + 1 \in DOMAIN obj.v THEN obj.v[i + 1] ELSE Undefined

\* (a, b): the comma operator evaluates both operands and yields the last
Comma(a, b) == b

TypeError(property) ==
  Str("TypeError: Cannot read property '" \o property \o "' of undefined")

\* obj.method(args): reading a property of undefined throws; the outcome
\* is <<value, exception>>
Method(obj, method, args) ==
  IF obj.t \in {"undefined", "null"}
  THEN <<Undefined, TypeError(method)>>
  ELSE <<Computed(obj, method, args), Undefined>>

\* returns the weighted centered image and its weighted covariance matrix
covarw(image, weights) ==
  LET centered == Computed(Computed(image, "toArray", <<>>), "subtract", <<"means">>)
      covw == Computed(Computed(centered, "multiply", <<weights>>), "centeredCovariance", <<>>)
  IN JsArray(<<Computed(centered, "arrayFlatten", <<"bandNames">>), covw>>)

\* generalized eigenproblem C*X = lambda*B*X
geneiv(C, B) ==
  LET Li == Computed(Computed(Computed(B, "matrixCholeskyDecomposition", <<>>),
                              "get", <<"L">>), "matrixInverse", <<>>)
      Xa == Computed(Computed(Computed(Li, "matrixMultiply", <<C>>),
                              "matrixMultiply", <<Computed(Li, "matrixTranspose", <<>>)>>),
                     "eigen", <<>>)
      lambdas == Computed(Computed(Xa, "slice", <<1, 0, 1>>), "matrixTranspose", <<>>)
      X == Computed(Computed(Xa, "slice", <<1, 1>>), "matrixTranspose", <<>>)
      eigenvecs == Computed(Computed(Li, "matrixTranspose", <<>>), "matrixMultiply", <<X>>)
  IN Comma(lambdas, eigenvecs)

\* the dictionary the iteration starts from
FirstDictionary(reference, target, rect) ==
  LET image == Computed(reference, "addBands", <<target>>)
      nbands == Computed(Computed(reference, "bandNames", <<>>), "length", <<>>)
  IN [image |-> Computed(image, "clip", <<rect>>),
      done |-> Num(0),
      allrhos |-> <<Computed(Str("ee.List"), "sequence", <<1, nbands>>)>>,
      chi2 |-> Computed(Str("ee.Image"), "constant", <<0>>),
      MAD |-> Computed(Str("ee.Image"), "constant", <<0>>)]

\* ee.Dictionary(prev).get(key)
Get(prev, key) == Computed(Computed(Str("ee.Dictionary"), "cast", <<prev>>), "get", <<key>>)

\* imad1, lines 2351 to 2375: image, weights, the covariance blocks and the
\* two eigenproblems c1, b1 and c2, b2
Eigenproblems(prev) ==
  LET image == Get(prev, "image")
      chi2 == Get(prev, "chi2")
      nBands == Computed(Computed(Computed(image, "bandNames", <<>>), "length", <<>>),
                         "divide", <<2>>)
      weights == Computed(Computed(chi2, "chi2cdf", <<nBands>>), "subtract", <<1>>)
      covarArray == Index(covarw(image, weights), 1)
      s11 == Computed(Computed(covarArray, "slice", <<0, 0, nBands>>), "slice", <<1, 0, nBands>>)
      s22 == Computed(Computed(covarArray, "slice", <<0, nBands>>), "slice", <<1, nBands>>)
      s12 == Computed(Computed(covarArray, "slice", <<0, 0, nBands>>), "slice", <<1, nBands>>)
      s21 == Computed(Computed(covarArray, "slice", <<0, nBands>>), "slice", <<1, 0, nBands>>)
      c1 == Computed(Computed(s12, "matrixMultiply", <<Computed(s22, "matrixInverse", <<>>)>>),
                     "matrixMultiply", <<s21>>)
      c2 == Computed(Computed(s21, "matrixMultiply", <<Computed(s11, "matrixInverse", <<>>)>>),
                     "matrixMultiply", <<s12>>)
  IN <<c1, s11, c2, s22>>

(***************************************************************************)
(* Inputs                                                                  *)
(***************************************************************************)
ColorNames == {"water", "forest", "pasture", "urban", "shadow", "null"}

OtherColorStrings == {"", "nulo", "blue", "waters", "NULO", "0066ff"}

ColorInputs == UNION {Spellings(n) : n \in ColorNames} \cup OtherColorStrings

Titles == {Undefined, Str("my_layer")}

MaxClasses == 7

LandsatIndexNames == {"NDVI", "NDWI", "NDBI", "NRVI", "EVI", "SAVI", "GOSAVI"}

\* the index argument: absent, a name in some spelling, or a string array
LandsatIndexInputs ==
  {Undefined, Null, Str("ndmi"), [t |-> "array", v |-> <<"NDVI">>]}
    \cup {Str(s) : s \in UNION {Spellings(n) : n \in LandsatIndexNames}}

S2IndexNames ==
  {"ndvi", "ndwi", "ndbi", "mndwi", "mndvi", "ngrdi", "ndsi", "ri", "ndmi",
   "gndvi", "bndvi", "nbr", "ppr", "ndre", "lci", "savi", "gosavi", "evi",
   "evi2", "gemi", "rvi", "logr", "tvi"}

OtherIndexStrings == {"", "nrvi", "ndvi2", "sav"}

S2IndexInputs ==
  {Undefined} \cup {Str(s) : s \in UNION {Spellings(n) : n \in S2IndexNames}
                                    \cup OtherIndexStrings}

\* years on both sides of the two thresholds of loadImg
YearMargin == 2

Years ==
  {Undefined} \cup {Num(y) : y \in ((1985 - YearMargin)..(1985 + YearMargin))
                                  \cup ((2013 - YearMargin)..(2013 + YearMargin))}

CollectionTypes == {Undefined, Str("RAW"), Str("TOA"), Str("SR"), Str("toa")}

Rois == {Undefined, Str("roi")}

CloudFreeFlags == {Undefined, Bool(TRUE), Bool(FALSE)}

MaxBand == 11

SolarAngles == {Undefined, Null, Str("SE"), Str("SZ"), Str("se"), Str("")}

Scales == {Undefined, Num(10)}

PixelLimits == {Undefined, Num(1000)}

ShowFlags == {Undefined, Bool(TRUE), Bool(FALSE)}

\* calls made after the module is loaded
MaxCalls == 2

Rects == {Str("rect1"), Str("rect2")}

\* largest number of iterations asked for
MaxIter == 4

Sensors == {Str("L5"), Str("L7"), Str("L8"), Str("S2"), Str("l8"), Undefined}

ClassCounts == {Num(n) : n \in 0..MaxClasses} \cup {Str("3"), Undefined}

(***************************************************************************)
(* The state machine: one action per exported function.  An action runs   *)
(* the function once on arguments of the input sets and records the call   *)
(* and its outcome.                                                        *)
(***************************************************************************)
Init ==
  /\ COLOR = ColorTable
  /\ globals = {}
  /\ calls = 0
  /\ fn = "none"
  /\ arguments = <<>>
  /\ ret = Undefined
  /\ printed = <<>>
  /\ layers = <<>>
  /\ tasks = <<>>
  /\ pc = "idle"
  /\ niter = 0
  /\ first = Undefined
  /\ locals = <<>>
  /\ executions = 0
  /\ result = Undefined
  /\ thrown = Undefined

CallColor ==
  \E s \in ColorInputs :
    \E out \in {Returns(color(COLOR, s))} :
    /\ calls < MaxCalls
    /\ calls' = calls + 1
    /\ globals' = globals \cup Escapes("color")
    /\ fn' = "color"
    /\ arguments' = <<Str(s)>>
    /\ ret' = out.ret
    /\ printed' = out.printed
    /\ layers' = out.layers
    /\ tasks' = out.tasks
    /\ UNCHANGED <<COLOR, iMAD>>

CallPlotRGB ==
  \E image \in Images, title \in Titles :
    \E out \in {plotRGB(image, title)} :
    /\ calls < MaxCalls
    /\ calls' = calls + 1
    /\ globals' = globals \cup Escapes("plotRGB")
    /\ fn' = "plotRGB"
    /\ arguments' = <<image, title>>
    /\ ret' = out.ret
    /\ printed' = out.printed
    /\ layers' = out.layers
    /\ tasks' = out.tasks
    /\ UNCHANGED <<COLOR, iMAD>>

CallPlotClass ==
  \E image \in Images, n \in ClassCounts, title \in Titles :
    \E out \in {plotClass(COLOR, image, n, title)} :
    /\ calls < MaxCalls
    /\ calls' = calls + 1
    /\ globals' = globals \cup Escapes("plotClass")
    /\ fn' = "plotClass"
    /\ arguments' = <<image, n, title>>
    /\ ret' = out.ret
    /\ printed' = out.printed
    /\ layers' = out.layers
    /\ tasks' = out.tasks
    /\ UNCHANGED <<COLOR, iMAD>>

CallLandsatIndices ==
  \E image \in Images, sensor \in Sensors, index \in LandsatIndexInputs :
    \E out \in {landsatIndices(image, sensor, index)} :
    /\ calls < MaxCalls
    /\ calls' = calls + 1
    /\ globals' = globals \cup Escapes("landsatIndices")
    /\ fn' = "landsatIndices"
    /\ arguments' = <<image, sensor, index>>
    /\ ret' = out.ret
    /\ printed' = out.printed
    /\ layers' = out.layers
    /\ tasks' = out.tasks
    /\ UNCHANGED <<COLOR, iMAD>>

CallSentinel2Indices ==
  \E image \in Images, index \in S2IndexInputs :
    \E out \in {sentinel2Indices(image, index)} :
    /\ calls < MaxCalls
    /\ calls' = calls + 1
    /\ globals' = globals \cup Escapes("sentinel2Indices")
    /\ fn' = "sentinel2Indices"
    /\ arguments' = <<image, index>>
    /\ ret' = out.ret
    /\ printed' = out.printed
    /\ layers' = out.layers
    /\ tasks' = out.tasks
    /\ UNCHANGED <<COLOR, iMAD>>

CallLoadImg ==
  /\ calls < MaxCalls
  /\ \E escaped \in {Escapes("loadImg")} :
     \E collection \in CollectionTypes, year \in Years, roi \in Rois,
     cloudFree \in CloudFreeFlags :
    \E out \in {loadImg(collection, year, roi, cloudFree)} :
    /\ calls' = calls + 1
    /\ globals' = globals \cup Escapes("loadImg")
    /\ fn' = "loadImg"
    /\ arguments' = <<collection, year, roi, cloudFree>>
    /\ ret' = out.ret
    /\ printed' = out.printed
    /\ layers' = out.layers
    /\ tasks' = out.tasks
    /\ UNCHANGED <<COLOR, iMAD>>

CallToaReflectanceL8 ==
  \E image \in Images, band \in 1..MaxBand, solarAngle \in SolarAngles :
    \E out \in {toaReflectanceL8(image, Num(band), solarAngle)} :
    /\ calls < MaxCalls
    /\ calls' = calls + 1
    /\ globals' = globals \cup Escapes("toaReflectanceL8")
    /\ fn' = "toaReflectanceL8"
    /\ arguments' = <<image, Num(band), solarAngle>>
    /\ ret' = out.ret
    /\ printed' = out.printed
    /\ layers' = out.layers
    /\ tasks' = out.tasks
    /\ UNCHANGED <<COLOR, iMAD>>

CallExportImg ==
  \E image \in Images, scale \in Scales, maxPixels \in PixelLimits :
    \E out \in {exportImg(image, Str("output_img"), scale, maxPixels)} :
    /\ calls < MaxCalls
    /\ calls' = calls + 1
    /\ globals' = globals \cup Escapes("exportImg")
    /\ fn' = "exportImg"
    /\ arguments' = <<image, Str("output_img"), scale, maxPixels>>
    /\ ret' = out.ret
    /\ printed' = out.printed
    /\ layers' = out.layers
    /\ tasks' = out.tasks
    /\ UNCHANGED <<COLOR, iMAD>>

CallS2Mosaic ==
  \E roi \in Rois, showMosaic \in ShowFlags :
    \E out \in {s2Mosaic(Str("2016-01-01"), Str("2016-12-31"), roi, showMosaic)} :
    /\ calls < MaxCalls
    /\ calls' = calls + 1
    /\ globals' = globals \cup Escapes("s2Mosaic")
    /\ fn' = "s2Mosaic"
    /\ arguments' = <<Str("2016-01-01"), Str("2016-12-31"), roi, showMosaic>>
    /\ ret' = out.ret
    /\ printed' = out.printed
    /\ layers' = out.layers
    /\ tasks' = out.tasks
    /\ UNCHANGED <<COLOR, iMAD>>

Next ==
  \/ CallColor
  \/ CallPlotRGB
  \/ CallPlotClass
  \/ CallLandsatIndices
  \/ CallSentinel2Indices
  \/ CallLoadImg
  \/ CallToaReflectanceL8
  \/ CallExportImg
  \/ CallS2Mosaic

Spec == Init /\ [][Next]_vars

(***************************************************************************)
(* One run of radcalbatch, statement by statement, as the client executes  *)
(* it.                                                                     *)
(***************************************************************************)
\* lines 2462 to 2480: the inputs and the dictionary of the first step
Radcalbatch ==
  \E reference \in Images, target \in Images, rect \in Rects, n \in 1..MaxIter :
    /\ pc = "idle"
    /\ pc' = "iterate"
    /\ niter' = n
    /\ first' = FirstDictionary(reference, target, rect)
    /\ UNCHANGED <<library, locals, executions, result, thrown>>

\* line 2481: iterate calls imad on its placeholders to build the step;
\* imad reads done and evaluates the arguments of ee.Algorithms.If, the
\* last of which is the call imad1(current, prev)
Iterate ==
  /\ pc = "iterate"
  /\ pc' = "imad1"
  /\ locals' = <<Get(Placeholder("prev"), "done")>>
  /\ executions' = executions + 1
  /\ UNCHANGED <<library, niter, first, result, thrown>>

\* imad1, lines 2351 to 2375
Imad1Covariances ==
  /\ pc = "imad1"
  /\ pc' = "geneiv"
  /\ locals' = Eigenproblems(Placeholder("prev"))
  /\ UNCHANGED <<library, niter, first, executions, result, thrown>>

\* imad1, lines 2376 to 2378: lambdas, A and B
Imad1Geneiv ==
  /\ pc = "geneiv"
  /\ pc' = "rhos"
  /\ locals' = <<Index(geneiv(locals[1], locals[2]), 0),
                 Index(geneiv(locals[1], locals[2]), 1),
                 Index(geneiv(locals[3], locals[4]), 1)>>
  /\ UNCHANGED <<library, niter, first, executions, result, thrown>>

\* imad1, line 2379: lambdas.sqrt() throws, and nothing between here and
\* the caller of radcalbatch catches: the run is over
Imad1Throws ==
  /\ pc = "rhos"
  /\ Method(locals[1], "sqrt", <<>>)[2] # Undefined
  /\ pc' = "over"
  /\ thrown' = Method(locals[1], "sqrt", <<>>)[2]
  /\ UNCHANGED <<library, niter, first, locals, executions, result>>

NextImad ==
  \/ Radcalbatch
  \/ Iterate
  \/ Imad1Covariances
  \/ Imad1Geneiv
  \/ Imad1Throws

SpecImad == Init /\ [][NextImad]_vars

(***************************************************************************)
(* Vocabulary of the properties                                            *)
(***************************************************************************)
Range(f) == {f[x] : x \in DOMAIN f}

\* a and b are the same word up to the case of their letters
SameLetter(x, y) ==
  \/ x = y
  \/ \E i \in 1..Len(UpperChars) :
       {x, y} = {CharAt(UpperChars, i), CharAt(LowerChars, i)}

SameIgnoringCase(a, b) ==
  /\ Len(a) = Len(b)
  /\ \A i \in 1..Len(a) : SameLetter(CharAt(a, i), CharAt(b, i))

\* the number a string of decimal digits denotes, -1 if it is not one
DigitValue(c) ==
  IF \E i \in 1..Len(Digits) : CharAt(Digits, i) = c
  THEN (CHOOSE i \in 1..Len(Digits) : CharAt(Digits, i) = c) - 1
  ELSE -1

RECURSIVE ParseDigits(_, _)
ParseDigits(s, acc) ==
  IF s = "" THEN acc
  ELSE IF DigitValue(Head(s)) < 0 THEN -1
  ELSE ParseDigits(Tail(s), 10 * acc + DigitValue(Head(s)))

ParseInt(s) == IF s = "" THEN -1 ELSE ParseDigits(s, 0)

BandNames(image) == [i \in 1..Len(image.added) |-> image.added[i].name]

\* the input image with exactly the bands named, in that order, added
IsImagePlus(r, image, names) ==
  /\ r.t = "image"
  /\ r.id = image.id
  /\ BandNames(r) = names

(***************************************************************************)
(* C1: color(name) ignores the case of name and returns the documented     *)
(* colour for each of the six names; for every other string it returns the *)
(* error message and never a colour value.                                 *)
(***************************************************************************)
DocumentedColor ==
  [water |-> "0066ff", forest |-> "009933", pasture |-> "99cc00",
   urban |-> "ff0000", shadow |-> "000000", null |-> "808080"]

C1_ColorByName ==
  fn = "color" =>
    LET s == arguments[1].v IN
    /\ \A n \in ColorNames :
         SameIgnoringCase(s, n) => ret = Str(DocumentedColor[n])
    /\ (\A n \in ColorNames : ~SameIgnoringCase(s, n)) =>
         /\ ret = Str(ColorError)
         /\ ret.v \notin Range(DocumentedColor)

C1_Witness ==
  /\ fn = "color"
  /\ arguments[1] = Str("wAtEr")
  /\ ret = Str("0066ff")

(***************************************************************************)
(* C2: plotClass adds, for each numClasses of 2, 3, 4 and 5, exactly one   *)
(* layer with min 0, max numClasses - 1 and a palette of numClasses        *)
(* entries that are all colours of the COLOR table; for any other          *)
(* numClasses it prints the error and adds no layer.                       *)
(***************************************************************************)
IsColor(x) == x.t = "string" /\ x.v \in Range(COLOR)

C2_PlotClassPalette ==
  fn = "plotClass" =>
    LET n == arguments[2] IN
    IF n.t = "number" /\ n.v \in 2..5
    THEN /\ Len(layers) = 1
         /\ layers[1].vis.min = 0
         /\ layers[1].vis.max = n.v - 1
         /\ Len(layers[1].vis.palette) = n.v
         /\ \A i \in 1..Len(layers[1].vis.palette) : IsColor(layers[1].vis.palette[i])
    ELSE /\ layers = <<>>
         /\ printed = <<Str(PlotClassError)>>

(***************************************************************************)
(* C3: landsatIndices called without an index returns, for every sensor    *)
(* L5, L7, L8 and S2, the input image plus one band for each of NDVI,      *)
(* NDWI, NDBI, NRVI, EVI, SAVI and GOSAVI.                                 *)
(***************************************************************************)
C3_AllLandsatIndices ==
  (/\ fn = "landsatIndices"
   /\ arguments[3].t = "undefined"
   /\ arguments[2] \in {Str("L5"), Str("L7"), Str("L8"), Str("S2")}) =>
    /\ ret.t = "image"
    /\ ret.id = arguments[1].id
    /\ Len(ret.added) = 7
    /\ Range(BandNames(ret)) = LandsatIndexNames

(***************************************************************************)
(* C4: landsatIndices called with a sensor of its documentation and the    *)
(* name of a supported index, written as in the documented usage ('savi')  *)
(* or as in the list of supported indices ('SAVI'), returns the input      *)
(* image plus exactly the band of that index.                              *)
(***************************************************************************)
C4_OneLandsatIndex ==
  (/\ fn = "landsatIndices"
   /\ arguments[2] \in {Str("L5"), Str("L7"), Str("L8")}
   /\ arguments[3].t = "string"
   /\ \E n \in LandsatIndexNames : arguments[3].v \in {n, toLowerCase(n)}) =>
    IsImagePlus(ret, arguments[1], <<toUpperCase(arguments[3].v)>>)

(***************************************************************************)
(* C5: sentinel2Indices called without an index returns the input image    *)
(* with one added band for every one of the 23 documented indices.         *)
(***************************************************************************)
C5_AllSentinel2Indices ==
  (fn = "sentinel2Indices" /\ arguments[2].t = "undefined") =>
    /\ ret.t = "image"
    /\ ret.id = arguments[1].id
    /\ Len(ret.added) = 23
    /\ \A n \in S2IndexNames :
         \E i \in 1..Len(ret.added) : SameIgnoringCase(ret.added[i].name, n)

(***************************************************************************)
(* C6: sentinel2Indices(image, index) ignores the case of index; for each  *)
(* of the 23 documented names it returns the input image with exactly one  *)
(* added band, the one of that index; for any other string it returns      *)
(* undefined.                                                              *)
(***************************************************************************)
C6_OneSentinel2Index ==
  (fn = "sentinel2Indices" /\ arguments[2].t = "string") =>
    LET s == arguments[2].v IN
    /\ \A n \in S2IndexNames :
         SameIgnoringCase(s, n) =>
           /\ ret.t = "image"
           /\ ret.id = arguments[1].id
           /\ Len(ret.added) = 1
           /\ SameIgnoringCase(ret.added[1].name, n)
    /\ (\A n \in S2IndexNames : ~SameIgnoringCase(s, n)) => ret = Undefined

C6_Witness ==
  /\ fn = "sentinel2Indices"
  /\ arguments[2] = Str("gEmI")
  /\ ret.t = "image"
  /\ BandNames(ret) = <<"GEMI">>

(***************************************************************************)
(* C7: loadImg with cloudFree true (the default), the TOA collection (the  *)
(* default) and a year of a supported range masks the pixels with          *)
(* fmask = 4 in every image and returns a composite reduced over the       *)
(* collection; with cloudFree false or a RAW / SR collection it returns    *)
(* the first image sorted by CLOUD_COVER.                                  *)
(***************************************************************************)
LastCalls(r, k) == SubSeq(r.calls, Len(r.calls) - k + 1, Len(r.calls))

C7_CloudMaskBranch ==
  fn = "loadImg" =>
    LET type == OrDefault(arguments[1], Str("TOA"))
        year == OrDefault(arguments[2], Num(2015)).v
        cloudFree == OrDefault(arguments[4], Bool(TRUE))
    IN /\ (cloudFree = Bool(TRUE) /\ type = Str("TOA") /\ year >= 1985) =>
            LastCalls(ret, 2) = <<noclouds, <<"median">>>>
       /\ (cloudFree = Bool(FALSE) \/ type \in {Str("RAW"), Str("SR")}) =>
            LastCalls(ret, 2) = <<<<"sort", "CLOUD_COVER">>, <<"first">>>>

(***************************************************************************)
(* C8: loadImg resolves its arguments as documented: omitted arguments     *)
(* default to 'TOA', 2015 and cloudFree true; RAW, TOA and SR select the   *)
(* Landsat 8 datasets for year >= 2013 and the Landsat 5 datasets for      *)
(* 1985 <= year < 2013; a year takes the error branch exactly when it is   *)
(* in neither range; the date filter spans <year>-01-01 to <year>-12-31    *)
(* and the layer is titled loadImg_<year>.                                 *)
(***************************************************************************)
Landsat8Datasets ==
  [RAW |-> "LANDSAT/LC8_L1T", TOA |-> "LANDSAT/LC8_L1T_TOA_FMASK", SR |-> "LANDSAT/LC8_SR"]

Landsat5Datasets ==
  [RAW |-> "LANDSAT/LT5_L1T", TOA |-> "LANDSAT/LT5_L1T_TOA_FMASK", SR |-> "LANDSAT/LT5_SR"]

YearError(p) ==
  \E i \in 1..Len(p) : p[i] = Str("Error: Wrong year parameter")

C8_LoadImgResolution ==
  fn = "loadImg" =>
    LET type == IF arguments[1].t = "undefined" THEN "TOA" ELSE arguments[1].v
        year == IF arguments[2].t = "undefined" THEN 2015 ELSE arguments[2].v
        cloudFree == IF arguments[4].t = "undefined" THEN Bool(TRUE) ELSE arguments[4]
        dataset == ret.calls[1][2]
        dates == ret.calls[3]
        title == layers[1].title.v
    IN /\ Outcome(ret, printed, layers, tasks)
            = loadImg(Str(type), Num(year), arguments[3], cloudFree)
       /\ (year >= 2013 /\ type \in DOMAIN Landsat8Datasets) =>
            dataset = Str(Landsat8Datasets[type])
       /\ (year >= 1985 /\ year < 2013 /\ type \in DOMAIN Landsat5Datasets) =>
            dataset = Str(Landsat5Datasets[type])
       /\ YearError(printed) <=> ~(year >= 2013 \/ (year >= 1985 /\ year <= 2012))
       /\ dates[1] = "filterDate"
       /\ ParseInt(SubSeq(dates[2], 1, Len(dates[2]) - 6)) = year
       /\ SubSeq(dates[2], Len(dates[2]) - 5, Len(dates[2])) = "-01-01"
       /\ ParseInt(SubSeq(dates[3], 1, Len(dates[3]) - 6)) = year
       /\ SubSeq(dates[3], Len(dates[3]) - 5, Len(dates[3])) = "-12-31"
       /\ Len(layers) = 1
       /\ SubSeq(title, 1, 8) = "loadImg_"
       /\ ParseInt(SubSeq(title, 9, Len(title))) = year

C8_Witness ==
  /\ fn = "loadImg"
  /\ arguments = <<Undefined, Undefined, Undefined, Undefined>>
  /\ ret.calls[1] = <<"ee.ImageCollection", Str("LANDSAT/LC8_L1T_TOA_FMASK")>>
  /\ ret.calls[3] = <<"filterDate", "2015-01-01", "2015-12-31">>
  /\ layers[1].title = Str("loadImg_2015")

(***************************************************************************)
(* C9: toaReflectanceL8 returns an image for every value of solarAngle:    *)
(* 'SE' divides the reflectance by sin(SUN_ELEVATION) in a band named      *)
(* TOA_Reflectance_SE, 'SZ' divides it by cos(90 - SUN_ELEVATION) in a     *)
(* band named TOA_Reflectance_SZ; an omitted solarAngle behaves as 'SZ'    *)
(* and prints nothing, any other value prints the two errors and the       *)
(* warning and then behaves as 'SZ'.                                       *)
(***************************************************************************)
C9_SolarAngleModes ==
  fn = "toaReflectanceL8" =>
    LET image == arguments[1]
        band == arguments[2].v
        mode == arguments[3]
        elevation == <<"get", image.id, "SUN_ELEVATION">>
        known == mode \in {Undefined, Str("SE"), Str("SZ")}
    IN /\ ret.t = "image"
       /\ ret.op = "divide"
       /\ ret.args[1].op = "expression"
       /\ ret.args[1].args[3] = <<"image", "B" \o toString(band)>>
       /\ IF mode = Str("SE")
          THEN /\ ret.name = "TOA_Reflectance_SE"
               /\ ret.args[2] = <<"sin", elevation>>
          ELSE /\ ret.name = "TOA_Reflectance_SZ"
               /\ ret.args[2] = <<"cos", <<"subtract", 90, elevation>>>>
       /\ known => printed = <<>>
       /\ ~known =>
            printed = <<Str("Error: You need to choose one of two modes:"),
                        Str("Error: 'SE' for the local sun elevation angle or 'SZ' for the Local solar zenith angle."),
                        Str("Warning: 'SZ' will be set as default mode.")>>

C9_Witness ==
  /\ fn = "toaReflectanceL8"
  /\ arguments[3] = Str("se")
  /\ Len(printed) = 3
  /\ ret.t = "image"
  /\ ret.name = "TOA_Reflectance_SZ"

(***************************************************************************)
(* C10: every exported function returns a remote handle, never undefined,  *)
(* for every argument combination that does not take an error path.        *)
(***************************************************************************)
IsErrorMessage(x) == x.t = "string" /\ SubSeq(x.v, 1, 5) = "Error"

\* the call printed an error or returned an error message
ErrorPath ==
  \/ \E i \in 1..Len(printed) : IsErrorMessage(printed[i])
  \/ IsErrorMessage(ret)

LandsatHandle(sensor, index) ==
  /\ sensor \in {Str("L5"), Str("L7"), Str("L8"), Str("S2")}
  /\ \/ index \in {Undefined, Null}
     \/ /\ index.t = "string"
        /\ index.v \in LandsatIndexNames
        /\ ~(index.v = "NRVI" /\ sensor = Str("S2"))

Sentinel2Handle(index) ==
  \/ index = Undefined
  \/ index.t = "string" /\ \E n \in S2IndexNames : SameIgnoringCase(index.v, n)

OnFreshModule(f, a) ==
  CASE f = "color" -> Returns(color(ColorTable, a[1].v))
    [] f = "plotRGB" -> plotRGB(a[1], a[2])
    [] f = "plotClass" -> plotClass(ColorTable, a[1], a[2], a[3])
    [] f = "landsatIndices" -> landsatIndices(a[1], a[2], a[3])
    [] f = "sentinel2Indices" -> sentinel2Indices(a[1], a[2])
    [] f = "loadImg" -> loadImg(a[1], a[2], a[3], a[4])
    [] f = "toaReflectanceL8" -> toaReflectanceL8(a[1], a[2], a[3])
    [] f = "exportImg" -> exportImg(a[1], a[2], a[3], a[4])
    [] f = "s2Mosaic" -> s2Mosaic(a[1], a[2], a[3], a[4])

C12_ImadIterations ==
  pc = "over" =>
    /\ thrown = Undefined
    /\ result # Undefined
    /\ executions <= niter
    /\ Len(result.allrhos) - 1 = executions

====
